---- MODULE Spec2Model ----
(***************************************************************************)
(* Camera export module of the Lux exporter for Maya                       *)
(* (Plugin/Lux/LuxExportModules/Camera.py).                                *)
(*                                                                         *)
(* A Camera instance is constructed for one camera and an output           *)
(* resolution; getOutput() queries the host (the MFnCamera function set    *)
(* and the lux_settings node) and appends scene-description lines to the   *)
(* output buffer.  One action, GetOutput, models one whole getOutput()     *)
(* call; the values the host returns are its inputs.                       *)
(*                                                                         *)
(* Numbers.  Python floats are modelled by exact rationals <<n, d>> in     *)
(* lowest terms with d > 0.  '%f' is modelled by PctF, which rounds to     *)
(* six decimals and yields the number of millionths.  Angles are held in   *)
(* units of pi radians, so math.degrees multiplies by 180.  A float        *)
(* division by zero raises ZeroDivisionError, as in Python.                *)
(***************************************************************************)
EXTENDS Integers, Sequences, FiniteSets, TLC

VARIABLES
    output,      \* the output buffer: the lines addToOutput has appended
    errorLog,    \* the messages given to MGlobal.displayError
    outWidth,    \* self.outWidth
    outHeight,   \* self.outHeight
    scale,       \* self.scale
    sceneScale,  \* self.sceneScale
    calls,       \* number of getOutput calls made on the instance
    last         \* record of the last getOutput call (inputs and outcome)

vars == <<output, errorLog, outWidth, outHeight, scale, sceneScale, calls, last>>

----------------------------------------------------------------------------
(* Rational arithmetic standing for Python float arithmetic.               *)

Abs(n) == IF n < 0 THEN -n ELSE n

RECURSIVE GCD(_, _)
GCD(a, b) == IF b = 0 THEN a ELSE GCD(b, a % b)

Rat(n, d) ==
    LET g == GCD(Abs(n), Abs(d))
        s == IF d < 0 THEN -1 ELSE 1
    IN  <<(s * n) \div g, (s * d) \div g>>

R(n) == <<n, 1>>

RAdd(a, b) == Rat(a[1] * b[2] + b[1] * a[2], a[2] * b[2])
RSub(a, b) == Rat(a[1] * b[2] - b[1] * a[2], a[2] * b[2])
RMul(a, b) == Rat(a[1] * b[1], a[2] * b[2])
RDiv(a, b) == Rat(a[1] * b[2], a[2] * b[1])
RNeg(a)    == <<-a[1], a[2]>>
RIsZero(a) == a[1] = 0
RLess(a, b) == a[1] * b[2] < b[1] * a[2]

\* '%f' % x: x rounded to six decimals (ties to even), in millionths.
PctF(x) ==
    LET m == x[1] * 1000000
        q == m \div x[2]
        r == m % x[2]
    IN  IF 2 * r > x[2] THEN q + 1
        ELSE IF 2 * r = x[2] THEN q + (q % 2)
        ELSE q

\* math.degrees(x), x in units of pi radians.
MathDegrees(x) == RMul(x, R(180))

\* Integer square root, exact on perfect squares.
ISqrt(n) == CHOOSE r \in 0..n : r * r <= n /\ (r + 1) * (r + 1) > n

\* math.sqrt(x) on the rationals whose numerator and denominator are squares.
MathSqrt(x) == Rat(ISqrt(x[1]), ISqrt(x[2]))

----------------------------------------------------------------------------
(* Bounds and the values the host can return.                              *)

MaxCalls == 1

DOF_CONST == 1000

NoExc == "none"
ZeroDivisionError == "ZeroDivisionError"

\* The failures a world-space query of MFnCamera can raise.
HostErrors == {"RuntimeError: (kFailure)", "RuntimeError: (kInvalidParameter)"}

WorldQueries == {"eyePoint", "upDirection", "centerOfInterestPoint"}

\* Which world-space queries would fail if attempted, and how.
Faults ==
    { [eyePoint |-> "ok", upDirection |-> "ok", centerOfInterestPoint |-> "ok"],
      [eyePoint |-> "RuntimeError: (kFailure)", upDirection |-> "ok",
       centerOfInterestPoint |-> "RuntimeError: (kInvalidParameter)"],
      [eyePoint |-> "ok", upDirection |-> "RuntimeError: (kInvalidParameter)",
       centerOfInterestPoint |-> "RuntimeError: (kFailure)"],
      [eyePoint |-> "ok", upDirection |-> "ok",
       centerOfInterestPoint |-> "RuntimeError: (kFailure)"] }

PerspTypes == {"Perspective", "Environment", "Realistic"}

\* (lux_settings.camera_infinite_focus, focalLength, fStop)
Lenses ==
    { [camera_infinite_focus |-> 1, focalLength |-> R(35), fStop |-> Rat(28, 5)],
      [camera_infinite_focus |-> 0, focalLength |-> R(35), fStop |-> Rat(28, 5)],
      [camera_infinite_focus |-> 0, focalLength |-> R(50), fStop |-> R(0)],
      [camera_infinite_focus |-> 1, focalLength |-> R(50), fStop |-> R(0)] }

\* The remaining camera attributes and settings, as four scenes.
Scenes ==
    { [filmTranslateH |-> R(0), filmTranslateV |-> R(0), orthoWidth |-> R(10),
       horizontalFieldOfView |-> Rat(1, 3), verticalFieldOfView |-> Rat(1, 4),
       horizontalFilmAperture |-> Rat(9, 5), verticalFilmAperture |-> Rat(5, 4),
       centerOfInterest |-> R(5), camera_autofocus |-> 0,
       camera_exposuretime |-> R(1), isYAxisUp |-> FALSE,
       eye |-> <<R(1), R(2), R(3)>>, up |-> <<R(0), R(0), R(1)>>,
       at |-> <<R(0), R(0), R(0)>>],
      [filmTranslateH |-> Rat(1, 4), filmTranslateV |-> Rat(-1, 8), orthoWidth |-> R(3),
       horizontalFieldOfView |-> Rat(1, 2), verticalFieldOfView |-> Rat(3, 10),
       horizontalFilmAperture |-> Rat(9, 5), verticalFilmAperture |-> Rat(5, 4),
       centerOfInterest |-> Rat(7, 200), camera_autofocus |-> 1,
       camera_exposuretime |-> Rat(1, 50), isYAxisUp |-> TRUE,
       eye |-> <<R(1), R(2), R(3)>>, up |-> <<R(0), R(1), R(0)>>,
       at |-> <<R(0), R(0), R(-4)>>],
      [filmTranslateH |-> R(0), filmTranslateV |-> R(0), orthoWidth |-> R(3),
       horizontalFieldOfView |-> Rat(1, 2), verticalFieldOfView |-> Rat(3, 10),
       horizontalFilmAperture |-> Rat(9, 5), verticalFilmAperture |-> Rat(5, 4),
       centerOfInterest |-> R(5), camera_autofocus |-> 1,
       camera_exposuretime |-> Rat(1, 50), isYAxisUp |-> TRUE,
       eye |-> <<R(1), R(2), R(3)>>, up |-> <<R(0), R(1), R(0)>>,
       at |-> <<R(0), R(0), R(-4)>>],
      [filmTranslateH |-> Rat(-1, 2), filmTranslateV |-> Rat(1, 3), orthoWidth |-> R(10),
       horizontalFieldOfView |-> Rat(1, 3), verticalFieldOfView |-> Rat(1, 4),
       horizontalFilmAperture |-> Rat(9, 5), verticalFilmAperture |-> Rat(5, 4),
       centerOfInterest |-> Rat(7, 200), camera_autofocus |-> 0,
       camera_exposuretime |-> R(1), isYAxisUp |-> FALSE,
       eye |-> <<R(1), R(2), R(3)>>, up |-> <<R(0), R(0), R(1)>>,
       at |-> <<R(0), R(0), R(0)>>] }

\* What the host answers during one getOutput call.
Hosts ==
    { [isOrtho |-> o, camera_persptype |-> p, lens |-> l, scene |-> s, fault |-> f] :
        o \in BOOLEAN, p \in PerspTypes, l \in Lenses, s \in Scenes, f \in Faults }

\* (width, height) the instance can be constructed with.
Resolutions == {<<1920, 1080>>, <<1080, 1920>>, <<1080, 1080>>}

\* Values getSceneScaleFactor can return (the scene's linear unit).
SceneScales == {R(1), Rat(1, 100)}

----------------------------------------------------------------------------
(* The course of one call.  A frame st holds what the call has done so     *)
(* far: out (the buffer), log (displayError messages), scale (self.scale), *)
(* queried (the host queries made, in order) and raised (the exception     *)
(* propagating, or NoExc).  Once an exception propagates, no later         *)
(* statement runs.                                                         *)

Ok(st) == st.raised = NoExc

Raise(st, exc) == IF Ok(st) THEN [st EXCEPT !.raised = exc] ELSE st

\* A call of a host API function (MFnCamera method or cmds.getAttr).
Query(st, name) == IF Ok(st) THEN [st EXCEPT !.queried = Append(@, name)] ELSE st

\* 'fmt % args': the format string with its formatted arguments.
Line(fmt, args) == [fmt |-> fmt, args |-> args]

\* ExportModule.addToOutput: append one line to the output buffer.
addToOutput(st, line) == IF Ok(st) THEN [st EXCEPT !.out = Append(@, line)] ELSE st

\* OpenMaya.MGlobal.displayError
displayError(st, msg) == IF Ok(st) THEN [st EXCEPT !.log = Append(@, msg)] ELSE st

\* ExportModule.intToBoolString
intToBoolString(i) == IF i = 0 THEN "false" ELSE "true"

\* ExportModule.checkUpAxis on a matrix that is a pure translation, given by
\* its translation vector: Y-up scenes are turned to Z-up.
checkUpAxis(h, m) == IF h.scene.isYAxisUp THEN <<m[1], RNeg(m[3]), m[2]>> ELSE m

pointCheckUpAxis(h, point) ==
    LET pointTM == point              \* setTranslation(MVector(point.x, point.y, point.z))
        pointM  == checkUpAxis(h, pointTM)
    IN  pointM                        \* MTransformationMatrix(pointM).getTranslation

\* ScreenWindow with the aspect test turned round (ratio < 1.0).
ScreenWindowSwapped(shiftX, shiftY, ratio, invRatio, sc) ==
    IF RLess(ratio, R(1))
    THEN << RMul(RSub(RMul(R(2), shiftX), R(1)), sc),
            RMul(RAdd(RMul(R(2), shiftX), R(1)), sc),
            RMul(RSub(RMul(R(2), shiftY), invRatio), sc),
            RMul(RAdd(RMul(R(2), shiftY), invRatio), sc) >>
    ELSE << RMul(RSub(RMul(R(2), shiftX), ratio), sc),
            RMul(RAdd(RMul(R(2), shiftX), ratio), sc),
            RMul(RSub(RMul(R(2), shiftY), R(1)), sc),
            RMul(RAdd(RMul(R(2), shiftY), R(1)), sc) >>

\* The screenwindow list of InsertCommon.
ScreenWindow(shiftX, shiftY, ratio, invRatio, sc) ==
    IF RLess(R(1), ratio)
    THEN << RMul(RSub(RMul(R(2), shiftX), R(1)), sc),
            RMul(RAdd(RMul(R(2), shiftX), R(1)), sc),
            RMul(RSub(RMul(R(2), shiftY), invRatio), sc),
            RMul(RAdd(RMul(R(2), shiftY), invRatio), sc) >>
    ELSE << RMul(RSub(RMul(R(2), shiftX), ratio), sc),
            RMul(RAdd(RMul(R(2), shiftX), ratio), sc),
            RMul(RSub(RMul(R(2), shiftY), R(1)), sc),
            RMul(RAdd(RMul(R(2), shiftY), R(1)), sc) >>

InsertCommon(st, h) ==
    LET s1 == Query(st, "getAttr lux_settings.camera_infinite_focus")
        finite == h.lens.camera_infinite_focus = 0
        s2 == IF finite THEN Query(Query(s1, "focalLength"), "fStop") ELSE s1
        focal_length == RDiv(h.lens.focalLength, R(DOF_CONST))
        twoF == RMul(R(2), h.lens.fStop)
        s3 == IF finite /\ RIsZero(twoF) THEN Raise(s2, ZeroDivisionError) ELSE s2
        lens_radius == IF finite THEN RDiv(focal_length, twoF) ELSE R(0)
        s4 == Query(Query(s3, "filmTranslateH"), "filmTranslateV")
        shiftX == h.scene.filmTranslateH
        shiftY == h.scene.filmTranslateV
        s5 == IF outHeight = 0 \/ outWidth = 0 THEN Raise(s4, ZeroDivisionError) ELSE s4
        ratio == Rat(outWidth, outHeight)
        invRatio == RDiv(R(1), ratio)
        sc == s5.scale
        screenwindow == ScreenWindow(shiftX, shiftY, ratio, invRatio, sc)
        s6 == IF Ok(s5)
              THEN addToOutput(s5, Line("\tscene.camera.screenwindow = %f %f %f %f",
                       << PctF(screenwindow[1]), PctF(screenwindow[2]),
                          PctF(screenwindow[3]), PctF(screenwindow[4]) >>))
              ELSE s5
        s7 == addToOutput(s6, Line("\tscene.camera.shutteropen = %f", <<PctF(R(0))>>))
        s8 == Query(s7, "getAttr lux_settings.camera_exposuretime")
        exposure_time == h.scene.camera_exposuretime
    IN  addToOutput(s8, Line("\tscene.camera.shutterclose = %f", <<PctF(exposure_time)>>))

\* WorldQuery that logs the failure and carries on instead of re-raising.
WorldQuerySwallow(st, h, q, msg) ==
    LET s1 == Query(st, q)
    IN  IF Ok(s1) /\ h.fault[q] # "ok" THEN displayError(s1, msg) ELSE s1

\* WorldQuery that empties the buffer before re-raising.
WorldQueryRollback(st, h, q, msg) ==
    LET s1 == Query(st, q)
    IN  IF Ok(s1) /\ h.fault[q] # "ok"
        THEN Raise(displayError([s1 EXCEPT !.out = <<>>], msg), h.fault[q])
        ELSE s1

\* One of the three try/except blocks of InsertLookat: the query, and on
\* failure displayError and a bare raise of the same exception.
WorldQuery(st, h, q, msg) ==
    LET s1 == Query(st, q)
    IN  IF Ok(s1) /\ h.fault[q] # "ok"
        THEN Raise(displayError(s1, msg), h.fault[q])
        ELSE s1

Vec3(fmt, v) == Line(fmt, <<PctF(v[1]), PctF(v[2]), PctF(v[3])>>)

InsertLookat(st, h) ==
    LET s1 == WorldQuery(st, h, "eyePoint", "Failed to get camera.eyePoint\n")
        s2 == WorldQuery(s1, h, "upDirection", "Failed to get camera.upDirection\n")
        s3 == WorldQuery(s2, h, "centerOfInterestPoint",
                         "Failed to get camera.centerOfInterestPoint\n")
        eye == pointCheckUpAxis(h, h.scene.eye)
        at  == pointCheckUpAxis(h, h.scene.at)
        up  == pointCheckUpAxis(h, h.scene.up)
        s4 == addToOutput(s3, Vec3("\tscene.camera.lookat.orig = %f %f %f", eye))
        s5 == addToOutput(s4, Vec3("\tscene.camera.lookat.target = %f %f %f", at))
        s6 == addToOutput(s5, Vec3("\tscene.camera.up = %f %f %f", up))
    IN  addToOutput(s6, Line("", <<>>))

InsertEnvironment(st, h) ==
    InsertCommon(addToOutput(st, Line("\tscene.camera.type = environment", <<>>)), h)

InsertRealistic(st, h) ==
    LET s1 == IF outHeight < outWidth
              THEN Query(st, "horizontalFieldOfView")
              ELSE Query(st, "verticalFieldOfView")
        s2 == Query(Query(s1, "horizontalFilmAperture"), "verticalFilmAperture")
        filmdiag == MathSqrt(RMul(h.scene.horizontalFilmAperture,
                                  h.scene.verticalFilmAperture))
        s3 == Query(Query(Query(s2, "fStop"), "centerOfInterest"), "focalLength")
        fstop == h.lens.fStop
        dofdist == h.scene.centerOfInterest
        focal == RDiv(h.lens.focalLength, R(DOF_CONST))
        s4 == IF RIsZero(fstop) THEN Raise(s3, ZeroDivisionError) ELSE s3
        aperture_diameter == RDiv(focal, fstop)
        s5 == IF RIsZero(RSub(dofdist, focal)) THEN Raise(s4, ZeroDivisionError) ELSE s4
        filmdistance == RDiv(RMul(dofdist, focal), RSub(dofdist, focal))
        s6 == addToOutput(s5, Line("\tscene.camera.type = realistic", <<>>))
        s7 == addToOutput(s6, Line("\t\"string specfile\" [\"%s\"]",
                  <<"E:/dev/luxrender/lux/cameras/realistic/wide.22mm.dat">>))
        s8 == IF Ok(s7)
              THEN addToOutput(
                     addToOutput(
                       addToOutput(s7, Line("\t\"float filmdistance\" [%f]",
                                            <<PctF(filmdistance)>>)),
                       Line("\t\"float aperture_diameter\" [%f]",
                            <<PctF(aperture_diameter)>>)),
                     Line("\t\"float filmdiag\" [%f]", <<PctF(filmdiag)>>))
              ELSE s7
    IN  InsertCommon(s8, h)

\* InsertPerspective taking the horizontal field of view on square output too.
InsertPerspectiveSquare(st, h) ==
    LET s1 == addToOutput(st, Line("\tscene.camera.type = perspective", <<>>))
        s2 == IF outHeight <= outWidth
              THEN Query(s1, "horizontalFieldOfView")
              ELSE Query(s1, "verticalFieldOfView")
        cFOV == IF outHeight <= outWidth
                THEN MathDegrees(h.scene.horizontalFieldOfView)
                ELSE MathDegrees(h.scene.verticalFieldOfView)
        s3 == Query(s2, "getAttr lux_settings.camera_autofocus")
        auto_focus == intToBoolString(h.scene.camera_autofocus)
        s4 == addToOutput(s3, Line("\tscene.camera.autofocus.enable = %s", <<auto_focus>>))
        s5 == addToOutput(s4, Line("\tscene.camera.fieldofview = %f", <<PctF(cFOV)>>))
    IN  InsertCommon(s5, h)

InsertPerspective(st, h) ==
    LET s1 == addToOutput(st, Line("\tscene.camera.type = perspective", <<>>))
        s2 == IF outHeight < outWidth
              THEN Query(s1, "horizontalFieldOfView")
              ELSE Query(s1, "verticalFieldOfView")
        cFOV == IF outHeight < outWidth
                THEN MathDegrees(h.scene.horizontalFieldOfView)
                ELSE MathDegrees(h.scene.verticalFieldOfView)
        s3 == Query(s2, "getAttr lux_settings.camera_autofocus")
        auto_focus == intToBoolString(h.scene.camera_autofocus)
        s4 == addToOutput(s3, Line("\tscene.camera.autofocus.enable = %s", <<auto_focus>>))
        s5 == addToOutput(s4, Line("\tscene.camera.fieldofview = %f", <<PctF(cFOV)>>))
    IN  InsertCommon(s5, h)

\* InsertOrtho setting self.scale only after the common block is written.
InsertOrthoLate(st, h) ==
    LET s1 == Query(st, "orthoWidth")
        s2 == addToOutput(s1, Line("\tscene.camera.type = orthographic", <<>>))
        s3 == InsertCommon(s2, h)
    IN  [s3 EXCEPT !.scale = RDiv(h.scene.orthoWidth, R(2))]

InsertOrtho(st, h) ==
    LET s1 == Query(st, "orthoWidth")
        s2 == [s1 EXCEPT !.scale = RDiv(h.scene.orthoWidth, R(2))]
        s3 == addToOutput(s2, Line("\tscene.camera.type = orthographic", <<>>))
    IN  InsertCommon(s3, h)

getOutput(st, h) ==
    LET s1 == Query(st, "isOrtho")
        s2 == IF h.isOrtho
              THEN InsertOrtho(s1, h)
              ELSE LET t1 == Query(s1, "getAttr lux_settings.camera_persptype")
                       ptype == h.camera_persptype
                       t2 == addToOutput(t1, Line("#Camera", <<>>))
                   IN  IF ptype = "Perspective" THEN InsertPerspective(t2, h)
                       ELSE IF ptype = "Environment" THEN InsertEnvironment(t2, h)
                       ELSE InsertRealistic(t2, h)
    IN  InsertLookat(s2, h)

----------------------------------------------------------------------------
(* The instance.                                                           *)

NoCall == [raised |-> "no call"]

\* Camera.__init__
Init ==
    /\ \E res \in Resolutions : outWidth = res[1] /\ outHeight = res[2]
    /\ scale = R(1)
    /\ sceneScale \in SceneScales
    /\ output = <<>>
    /\ errorLog = <<>>
    /\ calls = 0
    /\ last = NoCall

\* One call of getOutput on the instance, the host answering as h.
GetOutput(h) ==
    /\ calls < MaxCalls
    /\ \E st \in { getOutput([out |-> output, log |-> errorLog, scale |-> scale,
                              queried |-> <<>>, raised |-> NoExc], h) } :
          /\ output' = st.out
          /\ errorLog' = st.log
          /\ scale' = st.scale
          /\ last' = [h |-> h, base |-> Len(output), logBase |-> Len(errorLog),
                      scale0 |-> scale, sceneScale0 |-> sceneScale,
                      queried |-> st.queried, raised |-> st.raised]
    /\ calls' = calls + 1
    /\ UNCHANGED <<outWidth, outHeight, sceneScale>>

Next == \E h \in Hosts : GetOutput(h)

Spec == Init /\ [][Next]_vars

----------------------------------------------------------------------------
(* What the claims speak about.                                            *)

\* The lines the last getOutput call appended.
Appended == SubSeq(output, last.base + 1, Len(output))

\* The messages the last getOutput call logged.
Logged == SubSeq(errorLog, last.logBase + 1, Len(errorLog))

TypeFmt(t) ==
    CASE t = "orthographic" -> "\tscene.camera.type = orthographic"
      [] t = "perspective"  -> "\tscene.camera.type = perspective"
      [] t = "environment"  -> "\tscene.camera.type = environment"
      [] t = "realistic"    -> "\tscene.camera.type = realistic"

CameraTypes == {"orthographic", "perspective", "environment", "realistic"}
TypeFmts == {TypeFmt(t) : t \in CameraTypes}

ScreenwindowFmt == "\tscene.camera.screenwindow = %f %f %f %f"
ShutteropenFmt  == "\tscene.camera.shutteropen = %f"
ShuttercloseFmt == "\tscene.camera.shutterclose = %f"
FieldofviewFmt  == "\tscene.camera.fieldofview = %f"
AutofocusFmt    == "\tscene.camera.autofocus.enable = %s"
LookatFmts ==
    << "\tscene.camera.lookat.orig = %f %f %f",
       "\tscene.camera.lookat.target = %f %f %f",
       "\tscene.camera.up = %f %f %f",
       "" >>
LensFmts ==
    { "\t\"string specfile\" [\"%s\"]", "\t\"float filmdistance\" [%f]",
      "\t\"float aperture_diameter\" [%f]", "\t\"float filmdiag\" [%f]" }

Fmts(lines) == [i \in 1..Len(lines) |-> lines[i].fmt]

\* The positions of the lines of `lines` whose format is in F.
Where(lines, F) == {i \in 1..Len(lines) : lines[i].fmt \in F}

\* The camera type the claims' dispatch rule gives the host's answers.
ClaimedType(h) ==
    IF h.isOrtho THEN "orthographic"
    ELSE IF h.camera_persptype = "Perspective" THEN "perspective"
    ELSE IF h.camera_persptype = "Environment" THEN "environment"
    ELSE "realistic"

AllQueriesSucceed(h) == \A q \in WorldQueries : h.fault[q] = "ok"

\* The last call's lines end with the look-at block and hold it only there.
EndsWithLookat(lines) ==
    LET n == Len(lines)
    IN  /\ n >= 4
        /\ \A k \in 1..4 : lines[n - 4 + k].fmt = LookatFmts[k]
        /\ \A k \in 1..4 : Where(lines, {LookatFmts[k]}) = {n - 4 + k}

\* C1: a getOutput call in which all host queries succeed appends the
\* type line and the type-specific block first and then, exactly once and
\* as its last lines, the look-at block (orig, target, up, empty line).
C1_LookatLast ==
    (calls > 0 /\ AllQueriesSucceed(last.h)) =>
        /\ EndsWithLookat(Appended)
        /\ \E i \in Where(Appended, TypeFmts) : i < Len(Appended) - 3

\* C2: every call appends exactly one scene.camera.type line, and its value
\* is orthographic when isOrtho() holds and otherwise follows camera_persptype
\* (Perspective, Environment, anything else -> realistic).
C2_DispatchTotal ==
    calls > 0 =>
        \E i \in 1..Len(Appended) :
            /\ Where(Appended, TypeFmts) = {i}
            /\ Appended[i].fmt = TypeFmt(ClaimedType(last.h))

\* Weaker than C2, for reference: whatever type line a call appends is the
\* one the dispatch rule gives, there is at most one, and camera_persptype
\* is queried only for a camera that is not orthographic.
DispatchExclusive ==
    calls > 0 =>
        /\ Cardinality(Where(Appended, TypeFmts)) <= 1
        /\ \A i \in Where(Appended, TypeFmts) :
               Appended[i].fmt = TypeFmt(ClaimedType(last.h))
        /\ last.h.isOrtho =>
               \A i \in 1..Len(last.queried) :
                   last.queried[i] # "getAttr lux_settings.camera_persptype"

\* The first world-space query, in the order InsertLookat makes them, that
\* the host fails; "none" if all three succeed.
FirstFailing(h) ==
    IF h.fault["eyePoint"] # "ok" THEN "eyePoint"
    ELSE IF h.fault["upDirection"] # "ok" THEN "upDirection"
    ELSE IF h.fault["centerOfInterestPoint"] # "ok" THEN "centerOfInterestPoint"
    ELSE "none"

FailedMessage(q) ==
    CASE q = "eyePoint" -> "Failed to get camera.eyePoint\n"
      [] q = "upDirection" -> "Failed to get camera.upDirection\n"
      [] q = "centerOfInterestPoint" -> "Failed to get camera.centerOfInterestPoint\n"

\* The last call got as far as InsertLookat.
ReachedLookat ==
    calls > 0 /\ \E i \in 1..Len(last.queried) : last.queried[i] = "eyePoint"

\* The last call reached InsertLookat and the host failed a world-space query.
LookatFailed == ReachedLookat /\ FirstFailing(last.h) # "none"

\* C3: when a world-space query of InsertLookat fails, the call logs the
\* message naming exactly that query, re-raises the host's failure unchanged,
\* appends none of the look-at lines, and attempts no later query.
C3_LookatFailure ==
    LookatFailed =>
        LET q == FirstFailing(last.h)
        IN  /\ Logged = <<FailedMessage(q)>>
            /\ last.raised = last.h.fault[q]
            /\ Where(Appended, {LookatFmts[k] : k \in 1..4}) = {}
            /\ last.queried[Len(last.queried)] = q
            /\ Cardinality({i \in 1..Len(last.queried) :
                               last.queried[i] \in WorldQueries})
                 = CASE q = "eyePoint" -> 1
                     [] q = "upDirection" -> 2
                     [] q = "centerOfInterestPoint" -> 3

\* C3 witness: upDirection fails after eyePoint succeeded, and the later
\* centerOfInterestPoint query would have failed differently.
C3_Witness ==
    /\ LookatFailed
    /\ FirstFailing(last.h) = "upDirection"
    /\ last.h.fault["centerOfInterestPoint"] \notin {"ok", last.h.fault["upDirection"]}
    /\ Len(Appended) > 0

\* The formats of the lines a call appends before InsertLookat when nothing
\* raises, by camera type.
TypeBlockFmts(t) ==
    LET common == <<ScreenwindowFmt, ShutteropenFmt, ShuttercloseFmt>>
    IN  CASE t = "orthographic" -> <<TypeFmt(t)>> \o common
          [] t = "perspective"  ->
                 <<"#Camera", TypeFmt(t), AutofocusFmt, FieldofviewFmt>> \o common
          [] t = "environment"  -> <<"#Camera", TypeFmt(t)>> \o common
          [] t = "realistic"    ->
                 <<"#Camera", TypeFmt(t), "\t\"string specfile\" [\"%s\"]",
                   "\t\"float filmdistance\" [%f]", "\t\"float aperture_diameter\" [%f]",
                   "\t\"float filmdiag\" [%f]">> \o common

ClaimWindow(sx, sy, w, ht) ==
    IF w > ht
    THEN << RSub(RMul(R(2), sx), R(1)), RAdd(RMul(R(2), sx), R(1)),
            RSub(RMul(R(2), sy), Rat(ht, w)), RAdd(RMul(R(2), sy), Rat(ht, w)) >>
    ELSE << RSub(RMul(R(2), sx), Rat(w, ht)), RAdd(RMul(R(2), sx), Rat(w, ht)),
            RSub(RMul(R(2), sy), R(1)), RAdd(RMul(R(2), sy), R(1)) >>

Scaled(win, k) == [i \in 1..4 |-> PctF(RMul(win[i], k))]

ZeroOffset(h) == RIsZero(h.scene.filmTranslateH) /\ RIsZero(h.scene.filmTranslateV)

\* C5 as stated: with zero film offset the emitted bounds are
\* (-1, 1, -1/ratio, 1/ratio) for ratio > 1 and (-ratio, ratio, -1, 1) for
\* ratio < 1, for every camera.
C5_UnscaledBounds ==
    (calls > 0 /\ ZeroOffset(last.h) /\ outWidth # outHeight) =>
        \A i \in Where(Appended, {ScreenwindowFmt}) :
            Appended[i].args =
                IF outWidth > outHeight
                THEN << PctF(R(-1)), PctF(R(1)),
                        PctF(Rat(-outHeight, outWidth)), PctF(Rat(outHeight, outWidth)) >>
                ELSE << PctF(Rat(-outWidth, outHeight)), PctF(Rat(outWidth, outHeight)),
                        PctF(R(-1)), PctF(R(1)) >>

\* The scale factor a call's screen window is multiplied by: half the ortho
\* width for an orthographic camera, else the value the instance held when
\* the call began.
UsedScale ==
    IF last.h.isOrtho THEN Rat(last.h.scene.orthoWidth[1], 2 * last.h.scene.orthoWidth[2])
    ELSE last.scale0

\* C5 amended: with zero film offset the emitted bounds are
\* (-1, 1, -1/ratio, 1/ratio) for ratio > 1 and (-ratio, ratio, -1, 1) for
\* ratio < 1, each multiplied by the scale factor the call uses; they are the
\* unscaled values whenever that factor is 1.
C5_ScaledBounds ==
    (calls > 0 /\ ZeroOffset(last.h) /\ outWidth # outHeight) =>
        \A i \in Where(Appended, {ScreenwindowFmt}) :
            LET k == UsedScale
                unscaled ==
                    IF outWidth > outHeight
                    THEN <<R(-1), R(1), Rat(-outHeight, outWidth), Rat(outHeight, outWidth)>>
                    ELSE <<Rat(-outWidth, outHeight), Rat(outWidth, outHeight), R(-1), R(1)>>
            IN  Appended[i].args =
                    << PctF(RMul(k, unscaled[1])), PctF(RMul(k, unscaled[2])),
                       PctF(RMul(k, unscaled[3])), PctF(RMul(k, unscaled[4])) >>

\* C5 witness: an orthographic camera of ortho width 10 with zero film
\* offset on a 1920x1080 output, its screenwindow line appended.
C5_Witness ==
    /\ calls > 0
    /\ ZeroOffset(last.h)
    /\ outWidth = 1920 /\ outHeight = 1080
    /\ last.h.isOrtho
    /\ last.h.scene.orthoWidth = R(10)
    /\ Where(Appended, {ScreenwindowFmt}) # {}

\* C6: an orthographic export uses scale = orthoWidth / 2, set before the
\* screen window is computed, so all four bounds carry it; it appends no
\* fieldofview, autofocus or lens line.
C6_OrthoScale ==
    (calls > 0 /\ last.h.isOrtho) =>
        /\ scale = Rat(last.h.scene.orthoWidth[1], 2 * last.h.scene.orthoWidth[2])
        /\ \A i \in Where(Appended, {ScreenwindowFmt}) :
               Appended[i].args =
                   Scaled(ClaimWindow(last.h.scene.filmTranslateH,
                                      last.h.scene.filmTranslateV, outWidth, outHeight),
                          scale)
        /\ Where(Appended, {FieldofviewFmt, AutofocusFmt} \cup LensFmts) = {}

\* C6 witness: ortho width 10 gives scale 5 and a screenwindow line.
C6_Witness ==
    /\ calls > 0
    /\ last.h.isOrtho
    /\ last.h.scene.orthoWidth = R(10)
    /\ scale = R(5)
    /\ last.scale0 # scale
    /\ Where(Appended, {ScreenwindowFmt}) # {}

IsPerspective(h) == ~h.isOrtho /\ h.camera_persptype = "Perspective"

\* C7: a perspective export emits exactly one fieldofview line, holding the
\* horizontal field of view in degrees exactly when outWidth > outHeight and
\* the vertical one otherwise (square output included), and exactly one
\* autofocus.enable line, both after the type line and before the
\* screenwindow line.
C7_FieldOfView ==
    (calls > 0 /\ IsPerspective(last.h)) =>
        \E t, a, f \in 1..Len(Appended) :
            /\ Where(Appended, TypeFmts) = {t}
            /\ Where(Appended, {AutofocusFmt}) = {a}
            /\ Where(Appended, {FieldofviewFmt}) = {f}
            /\ t < a /\ t < f
            /\ \A w \in Where(Appended, {ScreenwindowFmt}) : a < w /\ f < w
            /\ Appended[f].args =
                   << PctF(RMul(R(180),
                                IF outWidth > outHeight
                                THEN last.h.scene.horizontalFieldOfView
                                ELSE last.h.scene.verticalFieldOfView)) >>

\* C7 witness: a square output, where the vertical field of view is used,
\* with the screenwindow line after the fieldofview line.
C7_Witness ==
    /\ calls > 0
    /\ IsPerspective(last.h)
    /\ outWidth = outHeight
    /\ last.h.scene.horizontalFieldOfView # last.h.scene.verticalFieldOfView
    /\ Where(Appended, {ScreenwindowFmt}) # {}
    /\ Where(Appended, {FieldofviewFmt}) # {}

\* C8: the instance's scale factors are read-only after construction: no
\* getOutput call changes scale (constructed as 1.0) or sceneScale.
C8_ScaleReadOnly ==
    /\ scale = R(1)
    /\ calls > 0 => (scale = last.scale0 /\ sceneScale = last.sceneScale0)

\* C9: every export call emits the common block exactly once, after the type
\* line: screenwindow, then shutteropen = 0.0, then shutterclose = the
\* camera_exposuretime setting.
C9_CommonBlock ==
    calls > 0 =>
        \E i \in 1..Len(Appended) :
            /\ Where(Appended, {ScreenwindowFmt}) = {i}
            /\ Where(Appended, {ShutteropenFmt}) = {i + 1}
            /\ Where(Appended, {ShuttercloseFmt}) = {i + 2}
            /\ Appended[i + 1].args = <<0>>
            /\ Appended[i + 2].args = <<PctF(last.h.scene.camera_exposuretime)>>
            /\ \E t \in Where(Appended, TypeFmts) : t < i

\* The frame the last call started from.
Before ==
    [out |-> SubSeq(output, 1, last.base), log |-> SubSeq(errorLog, 1, last.logBase),
     scale |-> last.scale0, queried |-> <<>>, raised |-> NoExc]

\* C10: for an orthographic, perspective or environment camera, the
\* camera_infinite_focus setting, the focal length and the f-stop do not
\* influence the export: a call differing only in them appends the same
\* lines, and neither call ends in an error the look-at queries did not cause.
C10_LensNonInterference ==
    (calls > 0 /\ ClaimedType(last.h) # "realistic") =>
        \A l \in Lenses :
            LET other == getOutput(Before, [last.h EXCEPT !.lens = l])
            IN  /\ other.out = output
                /\ other.raised = last.raised
                /\ last.raised \in HostErrors \cup {NoExc}

====
